---- MODULE Spec2Model ----
(***************************************************************************)
(* Model of safe_keyrecorder.py: the SafeKeyRecorder session.              *)
(*                                                                         *)
(* Text (a Python str, the content of the Tk Text widget, the content of   *)
(* a file) is a sequence of atoms.  An atom is either one character that   *)
(* matters to the formats ("\n", "\t") or a run of characters that holds   *)
(* neither of them.  Formatting concatenates atoms, lines are what lies    *)
(* between "\n" atoms, fields are what lies between "\t" atoms.            *)
(***************************************************************************)
EXTENDS Integers, Sequences, FiniteSets, TLC

VARIABLES
    recording,      \* self.recording
    events,         \* self.events: list of (timestamp, keysym, char_repr)
    display,        \* content of self.log_display
    start_btn,      \* state of self.start_btn
    stop_btn,       \* state of self.stop_btn
    status_label,   \* text of self.status_label
    files,          \* the file system: path -> [exists, data]
    clock,          \* the UTC clock read by datetime.utcnow()
    closed,         \* root.destroy() has run
    dialogs,        \* the dialogs the last handler opened, in order
    last,           \* the last handler that ran, its inputs and its outcome
    history,        \* what has happened so far: start_recording took effect,
                    \* the successful saves to each path, a confirmed Clear
                    \* since the last of them
    scope           \* the behaviours followed: "session", every handler, or
                    \* "saves", the handlers that record, save and clear,
                    \* with room for two saves of the same log

vars == <<recording, events, display, start_btn, stop_btn, status_label,
          files, clock, closed, dialogs, last, history, scope>>

\* The state of the session and of the files, without the clock and the
\* record of the last handler.
session == <<recording, events, display, start_btn, stop_btn, status_label,
             files, closed>>

-----------------------------------------------------------------------------
\* Bounds of the model.
MaxDisplay == 3     \* lines of the Display Panel
MaxClock == 0       \* last instant of the clock
MaxFileLines == 4   \* lines a session adds to one file

\* The room of each scope; two saves of one record need a display line and
\* a block of three lines more.  In the scope of the saves the clock stands
\* still: the instants play no part in what a file accumulates.
DisplayCap == IF scope = "saves" THEN MaxDisplay + 1 ELSE MaxDisplay
FileCap == IF scope = "saves" THEN MaxFileLines + 2 ELSE MaxFileLines
ClockCap == IF scope = "saves" THEN clock ELSE MaxClock

-----------------------------------------------------------------------------
\* Characters and text.
NL == "\n"
TAB == "\t"

DEFAULT_LOGFILE == "key_events_log.txt"

\* The paths the file dialog can return, as their components.
Paths == { <<"home", "user", DEFAULT_LOGFILE>> }

\* The content of the file that exists before the session starts; it does
\* not end with a newline.
OldContent == <<"old content">>

\* The key events the toolkit delivers: (event.keysym, event.char).
KeyEvents ==
    { [keysym |-> <<"a">>,       char |-> <<"a">>],
      [keysym |-> <<"Tab">>,     char |-> <<TAB>>],
      [keysym |-> <<"Shift_L">>, char |-> <<>>],
      [keysym |-> <<"j">>,       char |-> <<NL>>] }

\* The key events of a scope: all of them in a session; where saves
\* accumulate, those whose character is written to the file as typed or
\* replaced.
Keys ==
    IF scope = "saves"
    THEN { e \in KeyEvents : e.char \in { <<"a">>, <<NL>> } }
    ELSE KeyEvents

\* os.path.basename
Basename(path) == path[Len(path)]

\* datetime.utcnow().isoformat() at instant n
IsoFormat(n) == "2026-01-01T00:00:0" \o ToString(n)

\* str.replace(old, new) on a text whose atoms are single characters
RECURSIVE Replace(_, _, _)
Replace(s, old, new) ==
    IF s = <<>> THEN <<>>
    ELSE (IF Head(s) = old THEN new ELSE <<Head(s)>>)
         \o Replace(Tail(s), old, new)

\* str.split(sep): the fields between the separators, at least one
Split(s, sep) ==
    LET RECURSIVE go(_, _, _)
        go(i, cur, acc) ==
            IF i > Len(s) THEN Append(acc, cur)
            ELSE IF s[i] = sep THEN go(i + 1, <<>>, Append(acc, cur))
            ELSE go(i + 1, Append(cur, s[i]), acc)
    IN  go(1, <<>>, <<>>)

\* The lines of a text: what "\n" terminates, and an unterminated rest.
Lines(s) ==
    LET f == Split(s, NL)
    IN  IF f[Len(f)] = <<>> THEN SubSeq(f, 1, Len(f) - 1) ELSE f

\* The concatenation of a sequence of texts.
RECURSIVE Flatten(_)
Flatten(ss) == IF ss = <<>> THEN <<>> ELSE Head(ss) \o Flatten(Tail(ss))

-----------------------------------------------------------------------------
\* on_key_press, lines 107-116: the Event Record of a key event.
Timestamp(now) == <<IsoFormat(now), "Z">>

\* CharRepr without the replacement of the newline.
CharRepr_raw(char) ==
    IF char = <<>> THEN <<"<non-printable>">> ELSE char

CharRepr(char) ==
    IF char = <<>> THEN <<"<non-printable>">>
    ELSE Replace(char, NL, <<"\\n">>)

EventRecord(now, event) == <<Timestamp(now), event.keysym, CharRepr(event.char)>>

\* on_key_press, line 119: the display text of a record, first without the
\* character representation.
DisplayText_short(rec) == rec[1] \o <<" | ">> \o rec[2]

DisplayText(rec) == rec[1] \o <<" | ">> \o rec[2] \o <<" | ">> \o rec[3]

\* _append_to_display: the content after insert("end", text + "\n").
AppendToDisplay(content, text) == content \o text \o <<NL>>

\* _append_message: the text handed to _append_to_display.
InfoText(now, msg) == <<"[INFO] ", IsoFormat(now), "Z", " | ">> \o msg

AppendMessage_silent(content, now, msg) == content     \* no insert

AppendMessage(content, now, msg) == AppendToDisplay(content, InfoText(now, msg))

\* save_log, lines 148-151: the texts of the successive f.write calls.
HeaderLine(now) == <<"# Key event log saved: ", IsoFormat(now), "Z", NL>>

\* RecordLine with the key symbol and the character swapped.
RecordLine_swapped(rec) ==
    rec[1] \o <<TAB>> \o rec[3] \o <<TAB>> \o rec[2] \o <<NL>>

RecordLine(rec) == rec[1] \o <<TAB>> \o rec[2] \o <<TAB>> \o rec[3] \o <<NL>>

\* Writes without the blank line that ends the block.
Writes_unterminated(evs, now) ==
    <<HeaderLine(now)>> \o [i \in 1..Len(evs) |-> RecordLine(evs[i])]

Writes(evs, now) ==
    <<HeaderLine(now)>> \o [i \in 1..Len(evs) |-> RecordLine(evs[i])] \o <<<<NL>>>>

\* save_log, line 147: what open(path, "a") leaves of the old content.
OpenAppend_truncating(data) == <<>>      \* open(path, "w")
OpenAppend(data) == data

\* save_log, lines 154-155: the events kept after a save (the clear is
\* commented out).
EventsAfterSave_cleared(evs) == <<>>     \* self.events.clear()
EventsAfterSave(evs) == evs

\* clear_events, line 186: the content after delete("1.0", "end").
DeleteAll_nothing(content) == content    \* no delete
DeleteAll(content) == <<>>

\* start_recording and stop_recording, lines 82-85 and 91-94: the values
\* assigned to the flag, the buttons and the status indicator.
RecordingOnStart == TRUE                            \* line 82
RecordingOnStop_stuck == TRUE
RecordingOnStop == FALSE                            \* line 91
StartButtonOnStart == "disabled"                    \* line 83
StartButtonOnStop_disabled == "disabled"
StartButtonOnStop == "normal"                       \* line 92
StopButtonOnStart == "normal"                       \* line 84
StopButtonOnStop == "disabled"                      \* line 93
StatusOnStart == "Recording: Yes"                   \* line 85
StatusOnStop == "Recording: No"                     \* line 94

\* on_key_press, line 118: self.events.append(record).
AppendEvent_first(evs, rec) == <<rec>> \o evs       \* insert(0, record)
AppendEvent(evs, rec) == Append(evs, rec)

\* clear_events, line 183: whether the answer of askyesno clears.
ClearConfirmed_always(answer) == TRUE               \* the answer is not read
ClearConfirmed(answer) == answer

\* on_close, lines 191-194: whether root.destroy() is reached.
Destroys_always(prompted, answer) == TRUE     \* no return on decline
Destroys(prompted, answer) == ~prompted \/ answer

\* open_log_file, lines 171-176: the content of the main window's display
\* after the text read was inserted into the Text of a new Toplevel.
ShowInViewer_main(main, content) == main \o content   \* log_display.insert
ShowInViewer(main, content) == main

\* The number of line ends a text holds.
IsLineEnd(atom) == atom = NL
LineEnds(data) == Len(SelectSeq(data, IsLineEnd))

\* The room the bounds leave in a file for the text of some writes.
FileRoom(data, text) == LineEnds(data) + LineEnds(text) <= FileCap

-----------------------------------------------------------------------------
\* The conditions of the handlers' early returns, each after the same
\* handler with the condition left out or cut short.
StartIgnored_never == FALSE
StartIgnored == recording                           \* line 80

StopIgnored == ~recording                           \* line 89

KeyIgnored_never == FALSE
KeyIgnored == ~recording                            \* line 103

SaveNothing_never == FALSE
SaveNothing == events = <<>>                        \* line 132

ClearNothing_log_only == events = <<>>
ClearNothing == events = <<>> /\ display = <<>>     \* line 181

ClosePrompt_never == FALSE
ClosePrompt == events # <<>>                        \* line 191

\* The record of the handler that ran: its name, its outcome, its inputs,
\* and, for start_recording, whether the handler before it was
\* start_recording too.
Ran(op, outcome, keysym, char, path) ==
    [op |-> op, outcome |-> outcome, keysym |-> keysym, char |-> char,
     path |-> path,
     repeat |-> (op = "start_recording" /\ last.op = "start_recording")]

None == <<>>

-----------------------------------------------------------------------------
Built ==
    /\ recording = FALSE
    /\ events = <<>>
    /\ display = <<>>
    /\ start_btn = "normal"
    /\ stop_btn = "disabled"
    /\ status_label = "Recording: No"
    /\ files = [p \in Paths |-> [exists |-> TRUE, data |-> OldContent]]
    /\ clock = 0
    /\ closed = FALSE
    /\ dialogs = <<>>
    /\ last = [op |-> "__init__", outcome |-> "built", keysym |-> None,
               char |-> None, path |-> None, repeat |-> FALSE]
    /\ history = [started |-> FALSE, saves |-> [p \in Paths |-> 0],
                  cleared |-> FALSE]

Init == Built /\ scope = "session"

\* The room the bounds leave for one more display line.
DisplayRoom == LineEnds(display) < DisplayCap

start_recording ==
    /\ ~closed
    /\ IF StartIgnored
       THEN /\ last' = Ran("start_recording", "ignored", None, None, None)
            /\ UNCHANGED <<recording, start_btn, stop_btn, status_label,
                           display, clock, history>>
       ELSE /\ DisplayRoom
            /\ \E now \in clock..ClockCap :
                 /\ clock' = now
                 /\ recording' = RecordingOnStart
                 /\ start_btn' = StartButtonOnStart
                 /\ stop_btn' = StopButtonOnStart
                 /\ status_label' = StatusOnStart
                 /\ display' = AppendMessage(display, now,
                      <<"Recording started. Click inside input area and type...">>)
                 /\ last' = Ran("start_recording", "started", None, None, None)
                 /\ history' = [history EXCEPT !.started = TRUE]
    /\ dialogs' = <<>>
    /\ UNCHANGED <<events, files, closed, scope>>

stop_recording ==
    /\ ~closed
    /\ IF StopIgnored
       THEN /\ last' = Ran("stop_recording", "ignored", None, None, None)
            /\ UNCHANGED <<recording, start_btn, stop_btn, status_label,
                           display, clock>>
       ELSE /\ DisplayRoom
            /\ \E now \in clock..ClockCap :
                 /\ clock' = now
                 /\ recording' = RecordingOnStop
                 /\ start_btn' = StartButtonOnStop
                 /\ stop_btn' = StopButtonOnStop
                 /\ status_label' = StatusOnStop
                 /\ display' = AppendMessage(display, now, <<"Recording stopped.">>)
                 /\ last' = Ran("stop_recording", "stopped", None, None, None)
    /\ dialogs' = <<>>
    /\ UNCHANGED <<events, files, closed, history, scope>>

on_key_press ==
    /\ ~closed
    /\ \E event \in Keys :
         IF KeyIgnored
         THEN /\ last' = Ran("on_key_press", "ignored", None, None, None)
              /\ UNCHANGED <<events, display, clock>>
         ELSE /\ DisplayRoom
              /\ \E now \in clock..ClockCap :
                   LET rec == EventRecord(now, event)
                   IN  /\ clock' = now
                       /\ events' = AppendEvent(events, rec)
                       /\ display' = AppendToDisplay(display, DisplayText(rec))
                       /\ last' = Ran("on_key_press", "recorded",
                                      event.keysym, event.char, None)
    /\ dialogs' = <<>>
    /\ UNCHANGED <<recording, start_btn, stop_btn, status_label, files, closed,
                   history, scope>>

\* save_log, lines 146-157, once the dialog has returned a path.
SaveTo(path) ==
    LET old == files[path]
        kept == OpenAppend(old.data)
    IN  \/ \* open() raises: nothing is written
           /\ dialogs' = <<"asksaveasfilename", "showerror: Failed to save file">>
           /\ last' = Ran("save_log", "open failed", None, None, path)
           /\ UNCHANGED <<events, files, display, clock, history>>
        \/ \* a write (or the close) raises after the first k writes reached
           \* the file; the header alone stands for every partial block
           /\ \E now \in clock..ClockCap :
                LET ws == Writes(events, now)
                IN  \E k \in {1} :
                      /\ FileRoom(old.data, Flatten(SubSeq(ws, 1, k)))
                      /\ clock' = now
                      /\ files' = [files EXCEPT ![path] =
                            [exists |-> TRUE,
                             data |-> kept \o Flatten(SubSeq(ws, 1, k))]]
           /\ dialogs' = <<"asksaveasfilename", "showerror: Failed to save file">>
           /\ last' = Ran("save_log", "write failed", None, None, path)
           /\ UNCHANGED <<events, display, history>>
        \/ \* the block is written and the file closed
           /\ DisplayRoom
           /\ \E now \in clock..ClockCap, later \in clock..ClockCap :
                /\ now <= later
                /\ FileRoom(old.data, Flatten(Writes(events, now)))
                /\ clock' = later
                /\ files' = [files EXCEPT ![path] =
                      [exists |-> TRUE,
                       data |-> kept \o Flatten(Writes(events, now))]]
                /\ display' = AppendMessage(display, later,
                      <<"Saved ", ToString(Len(events)), " events to ",
                        Basename(path)>>)
           /\ events' = EventsAfterSave(events)
           /\ dialogs' = <<"asksaveasfilename", "showinfo: Saved events to">>
           /\ last' = Ran("save_log", "saved", None, None, path)
           /\ history' = [history EXCEPT !.saves[path] = @ + 1,
                                         !.cleared = FALSE]

save_log ==
    /\ ~closed
    /\ IF SaveNothing
       THEN /\ dialogs' = <<"showinfo: No recorded events to save.">>
            /\ last' = Ran("save_log", "nothing", None, None, None)
            /\ UNCHANGED <<events, files, display, clock, history>>
       ELSE \/ \* the user cancels the file dialog
               /\ dialogs' = <<"asksaveasfilename">>
               /\ last' = Ran("save_log", "cancelled", None, None, None)
               /\ UNCHANGED <<events, files, display, clock, history>>
            \/ \E path \in Paths : SaveTo(path)
    /\ UNCHANGED <<recording, start_btn, stop_btn, status_label, closed, scope>>

clear_events ==
    /\ ~closed
    /\ IF ClearNothing
       THEN /\ dialogs' = <<>>
            /\ last' = Ran("clear_events", "nothing", None, None, None)
            /\ UNCHANGED <<events, display, clock, history>>
       ELSE /\ dialogs' = <<"askyesno: Clear recorded events and display?">>
            /\ \E answer \in BOOLEAN :
                 /\ last' = Ran("clear_events",
                                IF answer THEN "confirmed" ELSE "declined",
                                None, None, None)
                 /\ IF ClearConfirmed(answer)
                    THEN \E now \in clock..ClockCap :
                           /\ clock' = now
                           /\ events' = <<>>
                           /\ display' = AppendMessage(DeleteAll(display), now,
                                              <<"Cleared recorded events.">>)
                           /\ history' = [history EXCEPT !.cleared = TRUE]
                    ELSE UNCHANGED <<events, display, clock, history>>
    /\ UNCHANGED <<recording, start_btn, stop_btn, status_label, files, closed,
                   scope>>

\* A viewer window holds the text read from the file when it was opened; the
\* model keeps the fact that the handler opened it, in dialogs, and not the
\* windows opened before.
open_log_file ==
    /\ ~closed
    /\ \/ \* the user cancels the file dialog
          /\ dialogs' = <<"askopenfilename">>
          /\ last' = Ran("open_log_file", "cancelled", None, None, None)
          /\ UNCHANGED display
       \/ \E path \in Paths :
            \/ \* open() or read() raises
               /\ dialogs' = <<"askopenfilename", "showerror: Failed to open file">>
               /\ last' = Ran("open_log_file", "read failed", None, None, path)
               /\ UNCHANGED display
            \/ \* the content is shown in a new window
               /\ files[path].exists
               /\ dialogs' = <<"askopenfilename", "Toplevel: Viewing">>
               /\ display' = ShowInViewer(display, files[path].data)
               /\ last' = Ran("open_log_file", "shown", None, None, path)
    /\ UNCHANGED <<recording, events, start_btn, stop_btn, status_label,
                   files, clock, closed, history, scope>>

on_close ==
    /\ ~closed
    /\ \E answer \in BOOLEAN :
         /\ ClosePrompt \/ answer      \* without a prompt there is no answer
         /\ dialogs' = IF ClosePrompt
                       THEN <<"askyesno: There are unsaved recorded events. Exit without saving?">>
                       ELSE <<>>
         /\ closed' = Destroys(ClosePrompt, answer)
         /\ last' = Ran("on_close",
                        IF ~ClosePrompt THEN "no prompt"
                        ELSE IF answer THEN "confirmed" ELSE "declined",
                        None, None, None)
    /\ UNCHANGED <<recording, events, display, start_btn, stop_btn,
                   status_label, files, clock, history, scope>>

Next ==
    \/ start_recording
    \/ stop_recording
    \/ on_key_press
    \/ save_log
    \/ clear_events
    \/ open_log_file
    \/ on_close

Spec == Init /\ [][Next]_vars

\* The handlers that record, save and clear, with room for two saves.
InitSaves == Built /\ scope = "saves"

NextSaves ==
    \/ start_recording
    \/ on_key_press
    \/ save_log
    \/ clear_events

SpecSaves == InitSaves /\ [][NextSaves]_vars
-----------------------------------------------------------------------------
\* What the properties read of a step: the handler that took it.
Took(op) == last'.op = op
TookWith(op, outcome) == last'.op = op /\ last'.outcome = outcome

\* The fields of a saved record line: the text up to the first tab, the text
\* up to the second, and the rest.
ParseRecord(line) ==
    LET f == Split(line, TAB)
        RECURSIVE join(_)
        join(i) == IF i = Len(f) THEN f[i] ELSE f[i] \o <<TAB>> \o join(i + 1)
    IN  IF Len(f) < 3 THEN <<>> ELSE <<f[1], f[2], join(3)>>

\* The text a step appended to the file of its path.
Appended(path) ==
    SubSeq(files'[path].data, Len(files[path].data) + 1, Len(files'[path].data))

\* What a step leaves of the old content of the file of its path.
KeptOld(path) ==
    /\ Len(files'[path].data) >= Len(files[path].data)
    /\ SubSeq(files'[path].data, 1, Len(files[path].data)) = files[path].data

-----------------------------------------------------------------------------
\* C1: a key event delivered while recording is false leaves the Event Log,
\* the Display Panel and the rest of the session as they were, so nothing of
\* the event is kept anywhere; and start_recording adds no record to the log.
C1_GateClosed ==
    [][ /\ (Took("on_key_press") /\ ~recording) =>
              /\ events' = events
              /\ display' = display
              /\ UNCHANGED session
        /\ Took("start_recording") => events' = events ]_vars

\* A key event was ignored after events had been recorded and recording stopped.
C1_Witness ==
    /\ last.op = "on_key_press" /\ last.outcome = "ignored"
    /\ ~recording
    /\ events # <<>>

\* C2: a key event delivered while recording is true adds exactly one record
\* at the end of the Event Log, built from the event (the timestamp read,
\* the key symbol, the character or its replacement), and exactly one line
\* to the Display Panel, the line of that record; the earlier records and
\* lines stay.
C2_GateOpen ==
    [][ (Took("on_key_press") /\ recording) =>
          /\ Len(events') = Len(events) + 1
          /\ SubSeq(events', 1, Len(events)) = events
          /\ LET rec == events'[Len(events')]
                 repr == IF last'.char = <<>> THEN <<"<non-printable>">>
                         ELSE IF last'.char = <<NL>> THEN <<"\\n">>
                         ELSE last'.char
             IN  /\ rec = << <<IsoFormat(clock'), "Z">>, last'.keysym, repr >>
                 /\ Lines(display') =
                      Append(Lines(display),
                             rec[1] \o <<" | ">> \o rec[2] \o <<" | ">> \o rec[3]) ]_vars

\* A second record was added, for the key whose character is a newline.
C2_Witness ==
    /\ last.op = "on_key_press" /\ last.outcome = "recorded"
    /\ last.char = <<NL>>
    /\ Len(events) >= 2

\* C3: a start_recording that follows a start_recording changes neither the
\* recording flag, the buttons, the status indicator, the Event Log nor the
\* Display Panel.
C3_StartIdempotent ==
    [][ (last.op = "start_recording" /\ Took("start_recording")) =>
          UNCHANGED <<recording, start_btn, stop_btn, status_label, events,
                      display, files, closed>> ]_vars

\* start_recording ran right after a start_recording that took effect.
C3_Witness ==
    /\ last.op = "start_recording" /\ last.repeat
    /\ recording
    /\ Len(Lines(display)) = 1

\* C4: save_log with an empty Event Log shows the notice and nothing else:
\* no file dialog, no write, and the Event Log, the recording flag and the
\* Display Panel as they were.
C4_SaveEmpty ==
    [][ (Took("save_log") /\ events = <<>>) =>
          /\ dialogs' = <<"showinfo: No recorded events to save.">>
          /\ files' = files
          /\ events' = events
          /\ recording' = recording
          /\ display' = display ]_vars

\* save_log ran with an empty Event Log while recording.
C4_Witness ==
    /\ last.op = "save_log" /\ last.outcome = "nothing"
    /\ events = <<>>
    /\ recording

\* C5: after a successful save_log the file holds its old content followed
\* by one block: a header line, one line per record of the Event Log, none
\* of them an info message, and a blank line.
C5_SaveAppends ==
    [][ TookWith("save_log", "saved") =>
          LET path == last'.path
              n == Len(events)
              f == Split(Appended(path), NL)
          IN  /\ KeptOld(path)
              /\ Len(f) = n + 3
              /\ f[1] # <<>> /\ f[1][1] = "# Key event log saved: "
              /\ \A i \in 2..(n + 1) :
                   /\ f[i] # <<>>
                   /\ f[i][1] # "[INFO] "
                   /\ Len(Split(f[i], TAB)) >= 3
              /\ f[n + 2] = <<>>
              /\ f[n + 3] = <<>> ]_vars

\* A save succeeded to the file that held content before the session.
C5_Witness ==
    /\ last.op = "save_log" /\ last.outcome = "saved"
    /\ events # <<>>
    /\ SubSeq(files[last.path].data, 1, Len(OldContent)) = OldContent
    /\ Len(files[last.path].data) > Len(OldContent)

C7_ClearPrompt ==
    [][ Took("clear_events") =>
          IF events = <<>> /\ display = <<>>
          THEN dialogs' = <<>> /\ UNCHANGED session
          ELSE /\ dialogs' = <<"askyesno: Clear recorded events and display?">>
               /\ last'.outcome # "confirmed" => UNCHANGED session ]_vars

\* clear_events asked while the Event Log was empty and the Display Panel
\* was not.
C7_Witness ==
    /\ last.op = "clear_events" /\ last.outcome = "declined"
    /\ events = <<>>
    /\ display # <<>>
    /\ dialogs = <<"askyesno: Clear recorded events and display?">>

\* C8: after a confirmed clear_events the Event Log is empty, the Display
\* Panel holds one line only, the info message of the clear, and the
\* recording flag is as it was.
C8_ClearConfirmed ==
    [][ TookWith("clear_events", "confirmed") =>
          /\ events' = <<>>
          /\ Lines(display') =
               << <<"[INFO] ", IsoFormat(clock'), "Z", " | ",
                    "Cleared recorded events.">> >>
          /\ recording' = recording ]_vars

\* A clear was confirmed while recording.
C8_Witness ==
    /\ last.op = "clear_events" /\ last.outcome = "confirmed"
    /\ recording
    /\ events = <<>>

\* C9: a close request declined while the Event Log holds records leaves
\* the window open and the Event Log, the recording flag and the Display
\* Panel as they were.
C9_CloseDeclined ==
    [][ (TookWith("on_close", "declined") /\ events # <<>>) =>
          /\ ~closed'
          /\ events' = events
          /\ recording' = recording
          /\ display' = display ]_vars

\* A close request was declined.
C9_Witness ==
    /\ last.op = "on_close" /\ last.outcome = "declined"
    /\ events # <<>>
    /\ ~closed

\* C10: save_log leaves the Event Log as it was, whatever its outcome; when
\* the write fails the error is shown, the window stays open, and the
\* recording flag and the Display Panel are as they were.
C10_SaveKeepsLog ==
    [][ Took("save_log") =>
          /\ events' = events
          /\ last'.outcome \in {"open failed", "write failed"} =>
               /\ dialogs'[Len(dialogs')] = "showerror: Failed to save file"
               /\ ~closed'
               /\ recording' = recording
               /\ display' = display ]_vars

\* A write failed after the header had reached the file.
C10_Witness ==
    /\ last.op = "save_log" /\ last.outcome = "write failed"
    /\ events # <<>>
    /\ files[last.path].data # OldContent

\* C11: open_log_file leaves the Event Log, the recording flag and the
\* Display Panel of the main window as they were, whether the dialog is
\* cancelled, the file is shown in the viewer or the read fails.
C11_OpenKeepsSession ==
    [][ Took("open_log_file") =>
          /\ events' = events
          /\ recording' = recording
          /\ display' = display ]_vars

\* A file that holds a saved block was shown while the log held records.
C11_Witness ==
    /\ last.op = "open_log_file" /\ last.outcome = "shown"
    /\ events # <<>>
    /\ files[last.path].data # OldContent

-----------------------------------------------------------------------------
\* The lines of the Display Panel that are not info messages.
IsEventLine(line) == line = <<>> \/ line[1] # "[INFO] "
EventLines(content) == SelectSeq(Lines(content), IsEventLine)

\* C12: in every step the Event Log stays as it is, or gains one record at
\* the end by a key event delivered while recording, or becomes empty by a
\* confirmed Clear; nothing else shortens or rewrites it.
C12_AppendOnly ==
    [][ \/ events' = events
        \/ /\ Took("on_key_press") /\ recording
           /\ Len(events') = Len(events) + 1
           /\ SubSeq(events', 1, Len(events)) = events
        \/ /\ TookWith("clear_events", "confirmed")
           /\ events' = <<>> ]_vars

\* A confirmed Clear emptied the log after recording had stopped.
C12_Witness ==
    /\ last.op = "clear_events" /\ last.outcome = "confirmed"
    /\ ~recording
    /\ history.started

\* C13: the lines of the Display Panel that are not info messages are, in
\* order, the lines of the records of the Event Log, one for each; so the
\* info messages of start, stop, save and clear stand for no record.
C13_DisplayMirrorsLog ==
    EventLines(display) =
        [i \in 1..Len(events) |->
            events[i][1] \o <<" | ">> \o events[i][2] \o <<" | ">> \o events[i][3]]

\* The Display Panel holds an info line and the lines of two records.
C13_Witness ==
    /\ Len(events) = 2
    /\ Len(Lines(display)) = 3
    /\ Len(EventLines(display)) = 2

\* C14: the recording flag changes by start_recording, from false to true,
\* and by stop_recording, from true to false, and by nothing else; after a
\* start_recording it is true and after a stop_recording false.
C14_RecordingFlag ==
    [][ /\ recording' # recording =>
              \/ Took("start_recording") /\ ~recording /\ recording'
              \/ Took("stop_recording") /\ recording /\ ~recording'
        /\ Took("start_recording") => recording'
        /\ Took("stop_recording") => ~recording'
        /\ (\/ Took("on_key_press") \/ Took("save_log") \/ Took("clear_events")
            \/ Took("open_log_file") \/ TookWith("on_close", "declined")) =>
              recording' = recording ]_vars

\* Recording was started again after it had been stopped.
C14_Witness ==
    /\ last.op = "start_recording" /\ last.outcome = "started"
    /\ recording
    /\ Len(Lines(display)) = 3
    /\ events = <<>>

\* C15: the Start button is disabled, the Stop button enabled and the
\* status indicator 'Recording: Yes' exactly when recording is true.
C15_ControlsFollowGate ==
    /\ (start_btn = "disabled") <=> recording
    /\ (start_btn = "normal") <=> ~recording
    /\ (stop_btn = "normal") <=> recording
    /\ (stop_btn = "disabled") <=> ~recording
    /\ (status_label = "Recording: Yes") <=> recording
    /\ (status_label = "Recording: No") <=> ~recording

\* Recording was stopped: Start is enabled again and Stop disabled.
C15_Witness ==
    /\ last.op = "stop_recording" /\ last.outcome = "stopped"
    /\ ~recording
    /\ start_btn = "normal" /\ stop_btn = "disabled"
    /\ status_label = "Recording: No"

\* The records of the Event Log are the last lines of the file of the path,
\* before the blank line: they have been saved.
AllSaved(path) ==
    LET tail == Flatten([i \in 1..Len(events) |->
                    events[i][1] \o <<TAB>> \o events[i][2] \o <<TAB>>
                    \o events[i][3] \o <<NL>>]) \o <<NL>>
        data == files[path].data
    IN  /\ Len(data) >= Len(tail)
        /\ SubSeq(data, Len(data) - Len(tail) + 1, Len(data)) = tail

\* C16: a close request closes the session exactly when the Event Log is
\* empty or the user confirms; it asks nothing when the log is empty and
\* asks whenever the log holds records, saved or not.
C16_Shutdown ==
    [][ Took("on_close") =>
          /\ closed' <=> (events = <<>> \/ last'.outcome = "confirmed")
          /\ events = <<>> => dialogs' = <<>>
          /\ events # <<>> =>
               dialogs' = <<"askyesno: There are unsaved recorded events. Exit without saving?">> ]_vars

\* The close request asked although every record had been saved.
C16_Witness ==
    /\ last.op = "on_close"
    /\ dialogs # <<>>
    /\ events # <<>>
    /\ \E path \in Paths : AllSaved(path)

\* C17: a cancelled Save dialog, a cancelled Open dialog and a declined
\* Clear leave the Event Log, the recording flag, the Display Panel and the
\* files as they were and show no error.
C17_CancelSilent ==
    [][ (\/ TookWith("save_log", "cancelled")
         \/ TookWith("open_log_file", "cancelled")
         \/ TookWith("clear_events", "declined")) =>
          /\ events' = events
          /\ recording' = recording
          /\ display' = display
          /\ files' = files
          /\ \A i \in 1..Len(dialogs') :
               dialogs'[i] \notin {"showerror: Failed to save file",
                                   "showerror: Failed to open file"} ]_vars

\* The Save dialog was cancelled while the log held records.
C17_Witness ==
    /\ last.op = "save_log" /\ last.outcome = "cancelled"
    /\ events # <<>>
    /\ dialogs = <<"asksaveasfilename">>

\* What a file holds after its old content, cut before each header: the
\* first piece is what precedes the first header, the others are the header
\* lines, without the words of the header, and what follows them.
Pieces(data) ==
    Split(SubSeq(data, Len(OldContent) + 1, Len(data)), "# Key event log saved: ")

Segments(data) == Tail(Pieces(data))

\* What a piece after a header is: a block (the rest of the header line, one
\* record line or more, a blank line), what a failed write left (the rest
\* of the header line and nothing after it), or something else.
Kind(seg) ==
    LET f == Split(seg, NL)
        n == Len(f)
    IN  IF n = 2 /\ f[1] # <<>> /\ f[2] = <<>> THEN "fragment"
        ELSE IF /\ n >= 4
                /\ f[n] = <<>>
                /\ f[n - 1] = <<>>
                /\ \A i \in 1..(n - 2) : f[i] # <<>>
             THEN "block"
        ELSE "other"

IsBlock(seg) == Kind(seg) = "block"

Blocks(data) == SelectSeq(Segments(data), IsBlock)

BlockRecords(seg) ==
    LET f == Split(seg, NL) IN SubSeq(f, 2, Len(f) - 2)

IsPrefix(a, b) == Len(a) <= Len(b) /\ SubSeq(b, 1, Len(a)) = a

StartsWithOld(data) ==
    Len(data) >= Len(OldContent) /\ SubSeq(data, 1, Len(OldContent)) = OldContent

\* The kinds of the pieces a file holds after its old content, in order.
Kinds(data) ==
    LET segs == Segments(data) IN [i \in 1..Len(segs) |-> Kind(segs[i])]

\* A successful save adds its block after the blocks the file holds, with
\* the records of the Event Log; when no Clear was confirmed since the save
\* before, the records of the block before are a prefix of them.
SaveAddsBlock ==
    TookWith("save_log", "saved") =>
        LET old == Blocks(files[last'.path].data)
            new == Blocks(files'[last'.path].data)
        IN  /\ Len(new) = Len(old) + 1
            /\ SubSeq(new, 1, Len(old)) = old
            /\ (Len(old) >= 1 /\ ~history.cleared) =>
                  IsPrefix(BlockRecords(old[Len(old)]), BlockRecords(new[Len(new)]))

C19_DisplayEmptyBeforeStart ==
    /\ (display = <<>>) <=> ~history.started
    /\ events # <<>> => display # <<>>
    /\ (last.op = "clear_events" /\ last.outcome = "nothing") => ~history.started
    /\ (last.op = "clear_events" /\ history.started) =>
          dialogs = <<"askyesno: Clear recorded events and display?">>

\* clear_events asked while the log was empty and the Display Panel held
\* the info line of an earlier Clear only.
C19_Witness ==
    /\ last.op = "clear_events" /\ last.outcome = "declined"
    /\ events = <<>>
    /\ history.cleared
    /\ Len(Lines(display)) = 1
====
